---- MODULE Spec2Model ----
(***************************************************************************)
(* Order / payment reconciliation engine of the e-commerce backend:        *)
(* orders.models (Order, OrderItem), products.models (Product stock),      *)
(* payments.models (Payment) and the request handlers that drive them      *)
(* (checkout, confirm, status poll, Stripe webhook, refund, cancel and     *)
(* the generic order update endpoint).                                     *)
(*                                                                         *)
(* Spec     : every request handler runs to completion before the next.    *)
(* SpecConc : handlers run as independent requests whose database reads    *)
(*            and writes interleave statement by statement; every request  *)
(*            works on the in-memory model instances it loaded.            *)
(***************************************************************************)
EXTENDS Integers, Sequences, FiniteSets, TLC

\* ---------------------------------------------------------------- bounds
NumProducts == 2
MaxOrders   == 2
MaxQty      == 1
InitStock   == 1
MaxStock    == 2
MaxTime     == 2
MaxInFlight == 2
MaxPrice    == 2
InitPrice   == 1
NumUsers    == 2
MaxGrants   == 6

Products == 1..NumProducts
OrderIds == 1..MaxOrders
Null     == 0

\* ------------------------------------------------------- program constants
ORDER_STATUS_CHOICES ==
    {"pending", "paid", "processing", "shipped", "delivered", "cancelled"}
PAYMENT_STATUS_CHOICES ==
    {"pending", "processing", "success", "failed", "cancelled", "refunded"}
PRODUCT_STATUS_CHOICES == {"active", "inactive", "out_of_stock"}

\* event types a verified Stripe event can carry ("other" stands for every
\* type the handler has no branch for)
StripeEventTypes ==
    {"payment_intent.succeeded", "payment_intent.payment_failed", "other"}

\* provider statuses a status query can report
ProviderStatuses == {"succeeded", "failed", "cancelled", "processing"}
PROVIDER_CHOICES == {"stripe", "bkash"}

VARIABLES
    products,   \* products table : id -> [stock, status]
    orders,     \* orders table   : sequence of [status, items]
    payments,   \* payments table : sequence of [order, status, completed_at,
                \*                  raw_response, error_message, refund]
    now,        \* the clock read by timezone.now()
    reduced,    \* history, per order and product: quantity its mark_as_paid
                \* took from stock, less what its cancel gave back
    paidCalls,  \* history: number of mark_as_paid calls, per order
    paidFlips,  \* history: number of pending->paid saves, per order
    requests,   \* SpecConc: requests in flight
    price,      \* products table, price column : id -> price
    result,     \* the outcome of the last order-creation or checkout call
    bkash       \* a BkashPaymentStrategy instance and the last request it sent

vars == <<products, orders, payments, now,
          reduced, paidCalls, paidFlips, requests, price, result,
          bkash>>

db   == <<products, orders, payments>>

\* a request slot: the handler's position and the model instances it holds
Slots   == 1..MaxInFlight
NoOrder == [status |-> "unloaded", items |-> << >>, total_amount |-> 0]
Idle    == [kind |-> "idle", pc |-> "", id |-> 0, order |-> NoOrder,
            prods |-> << >>, i |-> 0]
Quiescent == \A s \in Slots : requests[s] = Idle
hist == <<reduced, paidCalls, paidFlips>>

\* ------------------------------------------------------------ Product
\* products.models.Product.is_available
is_available(product) == product.status = "active" /\ product.stock > 0

\* reduce_stock without its test of the stock at hand
reduce_stock_unchecked(product, quantity) ==
    IF quantity <= 0
    THEN [raised |-> TRUE, product |-> product]
    ELSE [raised |-> FALSE,
          product |-> [stock  |-> product.stock - quantity,
                       status |-> IF product.stock - quantity = 0
                                  THEN "out_of_stock" ELSE product.status]]

\* products.models.Product.reduce_stock : the product as saved, or raised
reduce_stock(product, quantity) ==
    IF quantity <= 0 \/ product.stock < quantity
    THEN [raised |-> TRUE, product |-> product]
    ELSE [raised |-> FALSE,
          product |-> [stock  |-> product.stock - quantity,
                       status |-> IF product.stock - quantity = 0
                                  THEN "out_of_stock" ELSE product.status]]

\* increase_stock that leaves the status as it is
increase_stock_plain(product, quantity) ==
    IF quantity <= 0
    THEN [raised |-> TRUE, product |-> product]
    ELSE [raised |-> FALSE,
          product |-> [stock  |-> product.stock + quantity,
                       status |-> product.status]]

\* products.models.Product.increase_stock
increase_stock(product, quantity) ==
    IF quantity <= 0
    THEN [raised |-> TRUE, product |-> product]
    ELSE [raised |-> FALSE,
          product |-> [stock  |-> product.stock + quantity,
                       status |-> IF product.status = "out_of_stock"
                                  THEN "active" ELSE product.status]]

\* ------------------------------------------------------------ Order
NoQty == [p \in Products |-> 0]

\* the loop of Order.mark_as_paid over items[i..]: every reduce_stock is
\* saved on its own; the first one that raises ends the loop
RECURSIVE reduce_items(_, _, _, _)
reduce_items(items, i, prods, taken) ==
    IF i > Len(items)
    THEN [raised |-> FALSE, products |-> prods, taken |-> taken]
    ELSE LET r == reduce_stock(prods[items[i].product], items[i].quantity)
         IN  IF r.raised
             THEN [raised |-> TRUE, products |-> prods, taken |-> taken]
             ELSE reduce_items(items, i + 1,
                     [prods EXCEPT ![items[i].product] = r.product],
                     [taken EXCEPT ![items[i].product] = @ + items[i].quantity])

\* mark_as_paid without its status guard
mark_as_paid_unguarded(order, prods) ==
    LET r == reduce_items(order.items, 1, prods, NoQty)
    IN  [raised |-> r.raised, flipped |-> TRUE,
         order |-> [order EXCEPT !.status = "paid"],
         products |-> r.products, taken |-> r.taken]

\* mark_as_paid run as one transaction: a failing reduce_stock undoes the
\* status save and the earlier decrements
mark_as_paid_atomic(order, prods) ==
    IF order.status /= "pending"
    THEN [raised |-> TRUE, flipped |-> FALSE, order |-> order,
          products |-> prods, taken |-> NoQty]
    ELSE LET r == reduce_items(order.items, 1, prods, NoQty)
         IN  IF r.raised
             THEN [raised |-> TRUE, flipped |-> FALSE, order |-> order,
                   products |-> prods, taken |-> NoQty]
             ELSE [raised |-> FALSE, flipped |-> TRUE,
                   order |-> [order EXCEPT !.status = "paid"],
                   products |-> r.products, taken |-> r.taken]

\* orders.models.Order.mark_as_paid on the order instance `order`, item
\* products read from `prods`
mark_as_paid(order, prods) ==
    IF order.status /= "pending"
    THEN [raised |-> TRUE, flipped |-> FALSE, order |-> order,
          products |-> prods, taken |-> NoQty]
    ELSE LET r == reduce_items(order.items, 1, prods, NoQty)
         IN  [raised |-> r.raised, flipped |-> TRUE,
              order |-> [order EXCEPT !.status = "paid"],
              products |-> r.products, taken |-> r.taken]

\* the loop of Order.cancel over items[i..]
RECURSIVE increase_items(_, _, _, _)
increase_items(items, i, prods, given) ==
    IF i > Len(items)
    THEN [products |-> prods, given |-> given]
    ELSE increase_items(items, i + 1,
            [prods EXCEPT ![items[i].product] =
                 increase_stock(prods[items[i].product], items[i].quantity).product],
            [given EXCEPT ![items[i].product] = @ + items[i].quantity])

\* orders.models.Order.cancel
cancel(order, prods) ==
    IF order.status \in {"shipped", "delivered"}
    THEN [raised |-> TRUE, order |-> order, products |-> prods, given |-> NoQty]
    ELSE LET r == IF order.status = "paid"
                  THEN increase_items(order.items, 1, prods, NoQty)
                  ELSE [products |-> prods, given |-> NoQty]
         IN  [raised |-> FALSE, order |-> [order EXCEPT !.status = "cancelled"],
              products |-> r.products, given |-> r.given]

\* orders.models.Order.can_be_modified
can_be_modified(order) == order.status = "pending"

\* ------------------------------------------------------------ OrderItem
\* orders.models.OrderItem.calculate_subtotal with quantity only
calculate_subtotal_unit(quantity, item_price) == item_price

\* orders.models.OrderItem.calculate_subtotal
calculate_subtotal(quantity, item_price) == quantity * item_price

\* orders.models.Order.calculate_total over the order's item rows
RECURSIVE calculate_total(_)
calculate_total(items) ==
    IF items = << >> THEN 0
    ELSE Head(items).subtotal + calculate_total(Tail(items))

\* orders.models.Order.recalculate_and_save
recalculate_and_save(order) ==
    [order EXCEPT !.total_amount = calculate_total(order.items)]

\* the row orders.models.OrderItem.save writes: a price that is not given (0)
\* is taken from the product, the subtotal is always recomputed
item_row(product, quantity, item_price) ==
    LET p == IF item_price = 0 THEN price[product] ELSE item_price
    IN  [product |-> product, quantity |-> quantity, price |-> p,
         subtotal |-> calculate_subtotal(quantity, p)]

\* ------------------------------------------------------------ services
\* a block that is not run in a transaction: what it wrote stays
not_atomic(saved, run) == run

\* transaction.atomic around a block that ran on the tables `saved`: when the
\* block raises, the orders and payments it wrote are rolled back
atomic(saved, run) ==
    IF run.raised
    THEN [run EXCEPT !.orders = saved.orders, !.payments = saved.payments]
    ELSE run

\* the loop of OrderService.create_order over items[i..]; every
\* OrderItem.objects.create recalculates the order total; `at` is the item
\* the error raised is about, `exception` what is raised: the checks of the
\* loop raise ValidationError, the insert of a second row for a product
\* raises IntegrityError
RECURSIVE create_items(_, _, _)
create_items(items, i, order) ==
    IF i > Len(items)
    THEN [raised |-> FALSE, order |-> order, at |-> 0, exception |-> ""]
    ELSE LET p == items[i].product
             q == items[i].quantity
         IN  IF \/ p \notin Products                  \* Product.DoesNotExist
                \/ ~is_available(products[p])
                \/ products[p].stock < q
                \/ \E j \in DOMAIN order.items :     \* unique_together
                      order.items[j].product = p
             THEN [raised |-> TRUE, order |-> order, at |-> i,
                   exception |-> IF /\ p \in Products
                                    /\ is_available(products[p])
                                    /\ products[p].stock >= q
                                 THEN "IntegrityError" ELSE "ValidationError"]
             ELSE create_items(items, i + 1,
                     recalculate_and_save(
                        [order EXCEPT !.items = Append(@, item_row(p, q, price[p]))]))

\* orders.services.OrderService.create_order on the tables `tables`; `errors`
\* holds the item the ValidationError names (0: the list is empty)
create_order(items, tables) ==
    atomic(tables,
        IF items = << >>
        THEN [raised |-> TRUE, orders |-> tables.orders,
              payments |-> tables.payments, errors |-> {0},
              exception |-> "ValidationError"]
        ELSE LET r == create_items(items, 1,
                         [status |-> "pending", items |-> << >>, total_amount |-> 0])
             IN  [raised |-> r.raised, orders |-> Append(tables.orders, r.order),
                  payments |-> tables.payments,
                  errors |-> IF r.raised THEN {r.at} ELSE {},
                  exception |-> r.exception])

\* validate_order_items that reports nothing
validate_order_items_none(items) == {}

\* orders.services.OrderValidationService.validate_order_items: the indexes of
\* the items reported (0 reports the empty list)
validate_order_items(items) ==
    IF items = << >> THEN {0}
    ELSE {i \in DOMAIN items :
             \/ items[i].quantity <= 0
             \/ items[i].product \notin Products
             \/ ~is_available(products[items[i].product])
             \/ products[items[i].product].stock < items[i].quantity}

\* orders.services.OrderValidationService.can_proceed_to_payment
can_proceed_to_payment(order) ==
    /\ order.status = "pending"
    /\ order.total_amount > 0
    /\ order.items /= << >>
    /\ \A i \in DOMAIN order.items :
          /\ is_available(products[order.items[i].product])
          /\ products[order.items[i].product].stock >= order.items[i].quantity

\* what a provider's create_payment answers
NoTransaction == 0
ProviderFailure == [success |-> FALSE, transaction_id |-> NoTransaction]
ProviderSuccess(tid) == [success |-> TRUE, transaction_id |-> tid]

\* Payment.objects.create that ignores the requested provider
new_payment_default_provider(order_id, provider, transaction_id, amount) ==
    [order |-> order_id, status |-> "pending", completed_at |-> Null,
     raw_response |-> "create", error_message |-> "", refund |-> FALSE,
     provider |-> "stripe", transaction_id |-> transaction_id,
     amount |-> amount]

\* the row Payment.objects.create writes in create_order_and_initiate_payment
new_payment(order_id, provider, transaction_id, amount) ==
    [order |-> order_id, status |-> "pending", completed_at |-> Null,
     raw_response |-> "create", error_message |-> "", refund |-> FALSE,
     provider |-> provider, transaction_id |-> transaction_id,
     amount |-> amount]

\* the provider names a caller can pass, and str.lower on the strings of the
\* model
ProviderNames == {"stripe", "bkash", "Stripe", "BKASH", "paypal"}
lower(name) ==
    CASE name = "Stripe"    -> "stripe"
      [] name = "BKASH"     -> "bkash"
      [] name = "Completed" -> "completed"
      [] name = "Initiated" -> "initiated"
      [] OTHER              -> name

\* a factory that looks the name up as it was given
get_payment_strategy_exact(provider) ==
    IF provider \in {"stripe", "bkash"}
    THEN [raised |-> FALSE, strategy |-> provider]
    ELSE [raised |-> TRUE, strategy |-> ""]

\* payments.payment_strategies.get_payment_strategy: the strategy registered
\* under provider.lower(), or ValueError
get_payment_strategy(provider) ==
    IF lower(provider) \in {"stripe", "bkash"}
    THEN [raised |-> FALSE, strategy |-> lower(provider)]
    ELSE [raised |-> TRUE, strategy |-> ""]

\* the texts of the ValidationError create_order_and_initiate_payment raises
\* (the except block wraps whatever the payment step raised)
ItemErrors          == "validation_errors"
CreateOrderError    == "create_order"
CannotProceed       == "cannot_proceed"
UnsupportedProvider == "Payment initiation failed: Unsupported payment provider"
PaymentFailed       == "Payment initiation failed: ['Payment initiation failed: provider error']"
DuplicateEntry      == "Payment initiation failed: IntegrityError"

\* a payments table without the unique index on transaction_id
transaction_id_taken_never(table, transaction_id) == FALSE

\* payments.models.Payment.transaction_id, unique=True: the insert of a row
\* with this transaction id into `table` raises IntegrityError
transaction_id_taken(table, transaction_id) ==
    \E k \in DOMAIN table : table[k].transaction_id = transaction_id

\* orders.services.CheckoutService.create_order_and_initiate_payment
create_order_and_initiate_payment(items, provider, response) ==
    LET tables == [orders |-> orders, payments |-> payments]
        errors == validate_order_items(items)
        c == create_order(items, tables)
        order_id == Len(c.orders)
        fail(t, called, errs, text) ==
            [raised |-> TRUE, orders |-> t.orders, payments |-> t.payments,
             errors |-> errs, provider_called |-> called, order_id |-> 0,
             payment_id |-> 0, transaction_id |-> NoTransaction,
             error |-> text, exception |-> "ValidationError"]
    IN  atomic(tables,
          IF errors /= {} THEN fail(tables, FALSE, errors, ItemErrors)
          ELSE IF c.raised
          THEN [fail(c, FALSE, c.errors, CreateOrderError)
                   EXCEPT !.exception = c.exception]
          ELSE IF ~can_proceed_to_payment(c.orders[order_id])
          THEN fail(c, FALSE, {}, CannotProceed)
          ELSE IF get_payment_strategy(provider).raised
          THEN fail(c, FALSE, {}, UnsupportedProvider)
          ELSE IF ~response.success THEN fail(c, TRUE, {}, PaymentFailed)
          ELSE IF transaction_id_taken(c.payments, response.transaction_id)
          THEN fail(c, TRUE, {}, DuplicateEntry)
          ELSE [raised |-> FALSE, orders |-> c.orders,
                payments |-> Append(c.payments,
                    new_payment(order_id, lower(provider),
                                response.transaction_id,
                                c.orders[order_id].total_amount)),
                errors |-> {}, provider_called |-> TRUE, order_id |-> order_id,
                payment_id |-> Len(c.payments) + 1,
                transaction_id |-> response.transaction_id, error |-> "",
                exception |-> ""])

\* ------------------------------------------------------------ Payment
\* payments.models.Payment.is_pending / can_be_refunded
is_pending_or_failed(payment) == payment.status \in {"pending", "failed"}
is_pending(payment) == payment.status = "pending"
can_be_refunded_settled(payment) == payment.status \in {"success", "refunded"}
can_be_refunded(payment) == payment.status = "success"

\* the payment row written by Payment.mark_as_success at time t
\* (every channel passes non-empty transaction data)
success_row(payment, data, t) ==
    [payment EXCEPT !.status = "success", !.completed_at = t,
                    !.raw_response = data]

\* payments.models.Payment.mark_as_success for payment pid: the tables after
\* the payment save and the (swallowed) order.mark_as_paid
mark_as_success(pid, data) ==
    LET o == payments[pid].order
        r == mark_as_paid(orders[o], products)
    IN  [payments |-> [payments EXCEPT ![pid] = success_row(@, data, now)],
         orders   |-> [orders EXCEPT ![o] = r.order],
         products |-> r.products,
         reduced  |-> [reduced EXCEPT ![o] =
                          [p \in Products |-> @[p] + r.taken[p]]],
         paidCalls |-> [paidCalls EXCEPT ![o] = @ + 1],
         paidFlips |-> [paidFlips EXCEPT ![o] = @ + (IF r.flipped THEN 1 ELSE 0)]]

\* payments.models.Payment.mark_as_failed : the payment row written
mark_as_failed(payment, error_message, data, t) ==
    [payment EXCEPT !.status = "failed", !.error_message = error_message,
                    !.completed_at = t, !.raw_response = data]

\* ------------------------------------------------------------ bearer token
\* the operations BkashPaymentStrategy sends with an Authorization header
BkashOperations ==
    {"create_payment", "confirm_payment", "get_payment_status", "refund_payment"}

\* no request sent yet
NothingSent == [op |-> "none", token |-> Null, expired |-> FALSE]

\* payments.payment_strategies.BkashPaymentStrategy.__init__: self.token = None.
\* Beside the instance's token the record keeps what the provider knows of it
\* (expired: the token's lifetime is over), the number of grant calls made so
\* far, and the last operation request sent
BkashPaymentStrategy(grants) ==
    [token |-> Null, expired |-> FALSE, grants |-> grants, sent |-> NothingSent]

\* payments.payment_strategies.BkashPaymentStrategy._get_token: the token held
\* is returned as it is; without one the grant call is made, and its
\* RequestException is raised on
get_token(strategy, grant_ok) ==
    IF strategy.token /= Null
    THEN [raised |-> FALSE, strategy |-> strategy]
    ELSE IF grant_ok
    THEN [raised |-> FALSE,
          strategy |-> [strategy EXCEPT !.token = strategy.grants + 1,
                                        !.expired = FALSE, !.grants = @ + 1]]
    ELSE [raised |-> TRUE, strategy |-> [strategy EXCEPT !.grants = @ + 1]]

\* create_payment / confirm_payment / get_payment_status / refund_payment of
\* BkashPaymentStrategy: token = self._get_token(), then the request with
\* 'Authorization': token; a failed grant call ends the operation unsent
bkash_operation(strategy, op, grant_ok) ==
    LET g == get_token(strategy, grant_ok)
    IN  IF g.raised
        THEN [success |-> FALSE, strategy |-> g.strategy]
        ELSE [success |-> TRUE,
              strategy |-> [g.strategy EXCEPT !.sent =
                               [op |-> op, token |-> g.strategy.token,
                                expired |-> g.strategy.expired]]]

\* ------------------------------------------------------------ initial state
\* the answer of an order-creation or checkout call; none has answered yet.
\* `fault` tells that the call ended with an exception other than the
\* ValidationError its callers handle
NoResult == [op |-> "none", success |-> FALSE, errors |-> {},
             provider_called |-> FALSE, order_id |-> 0, payment_id |-> 0,
             transaction_id |-> NoTransaction, error |-> "", fault |-> FALSE]

\* an exception the views of orders.views do not catch
uncaught(exception) == exception \notin {"", "ValidationError"}

Init ==
    /\ products  = [p \in Products |-> [stock |-> InitStock, status |-> "active"]]
    /\ orders    = << >>
    /\ payments  = << >>
    /\ now       = 1
    /\ reduced   = [o \in OrderIds |-> NoQty]
    /\ paidCalls = [o \in OrderIds |-> 0]
    /\ paidFlips = [o \in OrderIds |-> 0]
    /\ requests  = [s \in Slots |-> Idle]
    /\ price     = [p \in Products |-> InitPrice]
    /\ result    = NoResult
    /\ bkash     = BkashPaymentStrategy(0)

\* item lists a checkout request can carry: one entry per product at most
\* (products are interchangeable, so the entries are listed in product order)
ItemLists ==
    {items \in UNION {[1..n -> [product : Products, quantity : 1..MaxQty]] :
                         n \in 1..NumProducts} :
        \A i, j \in DOMAIN items : i < j => items[i].product < items[j].product}

\* OrderValidationService.validate_order_items / the checks of create_order
items_valid(items) == validate_order_items(items) = {}

\* ------------------------------------------------- handlers, run to completion
\* orders.views.checkout_view -> CheckoutService.create_order_and_initiate_payment
\* (one transaction: a failure leaves nothing behind)
Checkout(items, provider_ok) ==
    /\ Quiescent
    /\ Len(orders) < MaxOrders
    /\ LET r == create_order_and_initiate_payment(items, "stripe",
                    IF provider_ok THEN ProviderSuccess(Len(payments) + 1)
                    ELSE ProviderFailure)
       IN  /\ orders' = r.orders
           /\ payments' = r.payments
    /\ UNCHANGED <<products, now, hist, requests, price, bkash, result>>

\* the effect of Payment.mark_as_success on the tables
ApplySuccess(pid, data) ==
    LET r == mark_as_success(pid, data)
    IN  /\ now <= MaxTime
        /\ payments' = r.payments
        /\ orders' = r.orders
        /\ products' = r.products
        /\ reduced' = r.reduced
        /\ paidCalls' = r.paidCalls
        /\ paidFlips' = r.paidFlips
        /\ now' = now + 1

\* the effect of Payment.mark_as_failed on the tables
ApplyFailed(pid, error_message, data) ==
    /\ now <= MaxTime
    /\ payments' = [payments EXCEPT ![pid] = mark_as_failed(@, error_message, data, now)]
    /\ now' = now + 1
    /\ UNCHANGED <<products, orders, hist>>

\* payments.views.stripe_webhook_view, what it does to the tables; `data` is
\* what the payment row keeps of the event
StripeWebhookTables(verified, event_type, tid, data) ==
    IF ~verified \/ tid \notin DOMAIN payments \/ event_type = "other"
    THEN UNCHANGED <<db, now, hist>>
    ELSE IF event_type = "payment_intent.succeeded"
    THEN ApplySuccess(tid, data)
    ELSE ApplyFailed(tid, "provider_error", data)

\* payments.views.stripe_webhook_view
StripeWebhook(verified, event_type, tid) ==
    /\ Quiescent
    /\ UNCHANGED <<requests, price, bkash, result>>
    /\ StripeWebhookTables(verified, event_type, tid, "provider")

\* payments.views.confirm_payment_view, what it does to the tables; `data` is
\* what the payment row keeps of the provider's answer
ConfirmPaymentTables(tid, provider_ok, data) ==
    IF tid \notin DOMAIN payments
    THEN UNCHANGED <<db, now, hist>>
    ELSE IF ~is_pending(payments[tid])
    THEN UNCHANGED <<db, now, hist>>
    ELSE IF provider_ok
    THEN ApplySuccess(tid, data)
    ELSE ApplyFailed(tid, "provider_error", data)

\* payments.views.confirm_payment_view
ConfirmPayment(tid, provider_ok) ==
    /\ Quiescent
    /\ UNCHANGED <<requests, price, bkash, result>>
    /\ ConfirmPaymentTables(tid, provider_ok, "provider")

\* a status poll that knows Stripe's word for success only
SuccessStatuses_stripe == {"succeeded"}

\* the provider statuses payment_status_view takes for success and for failure
SuccessStatuses == {"succeeded", "completed", "success"}
FailureStatuses == {"failed", "cancelled"}

\* payments.views.payment_status_view, what it does to the tables; `data` is
\* what the payment row keeps of the provider's answer
PaymentStatusTables(tid, provider_ok, provider_status, data) ==
    IF tid \notin DOMAIN payments \/ ~provider_ok
    THEN UNCHANGED <<db, now, hist>>
    ELSE IF /\ lower(provider_status) \in SuccessStatuses
            /\ payments[tid].status /= "success"
    THEN ApplySuccess(tid, data)
    ELSE IF /\ lower(provider_status) \in FailureStatuses
            /\ payments[tid].status \notin {"failed", "cancelled"}
    THEN ApplyFailed(tid, "", data)
    ELSE UNCHANGED <<db, now, hist>>

\* payments.views.payment_status_view
PaymentStatus(tid, provider_ok, provider_status) ==
    /\ Quiescent
    /\ UNCHANGED <<requests, price, bkash, result>>
    /\ PaymentStatusTables(tid, provider_ok, provider_status, "provider")

\* a refund that also clears the time of completion
RefundPaymentTables_reset(pid, is_admin, provider_ok) ==
    IF \/ ~is_admin
       \/ pid \notin DOMAIN payments
       \/ ~can_be_refunded(payments[pid])
       \/ ~provider_ok
    THEN UNCHANGED payments
    ELSE payments' = [payments EXCEPT ![pid].status = "refunded",
                                      ![pid].refund = TRUE,
                                      ![pid].completed_at = Null]

\* payments.views.refund_payment_view, what it does to the payments table
RefundPaymentTables(pid, is_admin, provider_ok) ==
    IF \/ ~is_admin
       \/ pid \notin DOMAIN payments
       \/ ~can_be_refunded(payments[pid])
       \/ ~provider_ok
    THEN UNCHANGED payments
    ELSE payments' = [payments EXCEPT ![pid].status = "refunded",
                                      ![pid].refund = TRUE]

\* payments.views.refund_payment_view
RefundPayment(pid, is_admin, provider_ok) ==
    /\ Quiescent
    /\ UNCHANGED <<products, orders, now, hist, requests, price, bkash, result>>
    /\ RefundPaymentTables(pid, is_admin, provider_ok)

\* orders.views.OrderViewSet.cancel -> OrderService.cancel_order
CancelOrder(o) ==
    /\ Quiescent
    /\ UNCHANGED <<payments, now, paidCalls, paidFlips, requests, price, bkash, result>>
    /\ IF o \notin DOMAIN orders
       THEN UNCHANGED <<products, orders, reduced>>
       ELSE LET r == cancel(orders[o], products)
            IN  /\ \A p \in Products : r.products[p].stock <= MaxStock
                /\ orders' = [orders EXCEPT ![o] = r.order]
                /\ products' = r.products
                /\ reduced' = [reduced EXCEPT ![o] =
                                  [p \in Products |-> @[p] - r.given[p]]]

\* orders.views.OrderViewSet update / partial_update (ModelViewSet) through
\* OrderDetailSerializer, whose status field is writable
UpdateOrder(o, status) ==
    /\ Quiescent
    /\ UNCHANGED <<products, payments, now, hist, requests, price, bkash, result>>
    /\ IF o \notin DOMAIN orders \/ status \notin ORDER_STATUS_CHOICES
       THEN UNCHANGED orders
       ELSE orders' = [orders EXCEPT ![o].status = status]

Next ==
    \/ \E items \in ItemLists, ok \in BOOLEAN : Checkout(items, ok)
    \/ \E v \in BOOLEAN, e \in StripeEventTypes, tid \in OrderIds :
          StripeWebhook(v, e, tid)
    \/ \E tid \in OrderIds, ok \in BOOLEAN : ConfirmPayment(tid, ok)
    \/ \E tid \in OrderIds, ok \in BOOLEAN, st \in ProviderStatuses :
          PaymentStatus(tid, ok, st)
    \/ \E pid \in OrderIds, a \in BOOLEAN, ok \in BOOLEAN : RefundPayment(pid, a, ok)
    \/ \E o \in OrderIds : CancelOrder(o)
    \/ \E o \in OrderIds, st \in ORDER_STATUS_CHOICES \cup {"returned"} :
          UpdateOrder(o, st)

Spec == Init /\ [][Next]_vars

\* the operations of the order / payment engine proper: everything but the
\* generic order update endpoint
NextEngine ==
    \/ \E items \in ItemLists, ok \in BOOLEAN : Checkout(items, ok)
    \/ \E v \in BOOLEAN, e \in StripeEventTypes, tid \in OrderIds :
          StripeWebhook(v, e, tid)
    \/ \E tid \in OrderIds, ok \in BOOLEAN : ConfirmPayment(tid, ok)
    \/ \E tid \in OrderIds, ok \in BOOLEAN, st \in ProviderStatuses :
          PaymentStatus(tid, ok, st)
    \/ \E pid \in OrderIds, a \in BOOLEAN, ok \in BOOLEAN : RefundPayment(pid, a, ok)
    \/ \E o \in OrderIds : CancelOrder(o)

SpecEngine == Init /\ [][NextEngine]_vars

\* ------------------------------------------- handlers, statement by statement
\* A request holds the instances it loaded; save(update_fields=...) writes the
\* instance's values of those fields over the row, whatever the row holds now.
Begin(s, kind, pc, id, order, prods) ==
    /\ requests[s] = Idle
    /\ \A t \in Slots : t < s => requests[t] /= Idle
    /\ requests' = [requests EXCEPT ![s] =
           [kind |-> kind, pc |-> pc, id |-> id, order |-> order,
            prods |-> prods, i |-> 0]]
    /\ UNCHANGED <<db, now, hist, price, bkash, result>>

\* stripe_webhook_view, payment_intent.succeeded: Payment.objects.get
BeginWebhook(s, tid) ==
    /\ tid \in DOMAIN payments
    /\ Begin(s, "webhook", "mark_as_success", tid, NoOrder, << >>)

\* payment_status_view with the provider reporting success: the payment and
\* (for the ownership check) its order are loaded before the provider call
BeginPoll(s, tid) ==
    /\ tid \in DOMAIN payments
    /\ payments[tid].status /= "success"
    /\ Begin(s, "poll", "mark_as_success", tid, orders[payments[tid].order], << >>)

\* confirm_payment_view with the provider call succeeding
BeginConfirm(s, tid) ==
    /\ tid \in DOMAIN payments
    /\ is_pending(payments[tid])
    /\ Begin(s, "confirm", "mark_as_success", tid, orders[payments[tid].order], << >>)

\* OrderService.cancel_order: get_order_details prefetches items__product
BeginCancel(s, o) ==
    /\ o \in DOMAIN orders
    /\ Begin(s, "cancel", "cancel", o, orders[o], products)

\* the order a payment request works on
OrderOf(r) == payments[r.id].order

\* Payment.mark_as_success: the payment save
SavePayment(s) ==
    LET r == requests[s]
    IN  /\ r.pc = "mark_as_success"
        /\ now <= MaxTime
        /\ payments' = [payments EXCEPT ![r.id] = success_row(@, "provider", now)]
        /\ now' = now + 1
        /\ requests' = [requests EXCEPT ![s].pc = "mark_as_paid"]
        /\ UNCHANGED <<products, orders, hist, price, bkash, result>>

\* Order.mark_as_paid: self.order is fetched unless the view already did, then
\* the status guard
CheckPending(s) ==
    LET r == requests[s]
        order == IF r.order = NoOrder THEN orders[OrderOf(r)] ELSE r.order
    IN  /\ r.pc = "mark_as_paid"
        /\ requests' = [requests EXCEPT ![s] =
               IF order.status /= "pending" THEN Idle
               ELSE [r EXCEPT !.pc = "save_order", !.order = order]]
        /\ paidCalls' = [paidCalls EXCEPT ![OrderOf(r)] = @ + 1]
        /\ UNCHANGED <<db, now, reduced, paidFlips, price, bkash, result>>

\* Order.mark_as_paid: self.status = 'paid'; self.save(update_fields=['status'])
SaveOrder(s) ==
    LET r == requests[s]
    IN  /\ r.pc = "save_order"
        /\ orders' = [orders EXCEPT ![OrderOf(r)].status = "paid"]
        /\ paidFlips' = [paidFlips EXCEPT ![OrderOf(r)] = @ + 1]
        /\ requests' = [requests EXCEPT ![s].pc = "reduce_stock", ![s].i = 1]
        /\ UNCHANGED <<products, payments, now, reduced, paidCalls, price, bkash, result>>

\* Order.mark_as_paid loop: item.product is fetched, reduce_stock checks it
LoadProduct(s) ==
    LET r == requests[s]
        item == r.order.items[r.i]
        product == products[item.product]
    IN  /\ r.pc = "reduce_stock"
        /\ requests' = [requests EXCEPT ![s] =
               IF reduce_stock(product, item.quantity).raised THEN Idle
               ELSE [r EXCEPT !.pc = "save_product", !.prods = <<product>>]]
        /\ UNCHANGED <<db, now, hist, price, bkash, result>>

\* Product.reduce_stock: self.save(update_fields=['stock', 'status'])
SaveProduct(s) ==
    LET r == requests[s]
        item == r.order.items[r.i]
    IN  /\ r.pc = "save_product"
        /\ products' = [products EXCEPT ![item.product] =
                            reduce_stock(r.prods[1], item.quantity).product]
        /\ reduced' = [reduced EXCEPT ![OrderOf(r)][item.product] = @ + item.quantity]
        /\ requests' = [requests EXCEPT ![s] =
               IF r.i = Len(r.order.items) THEN Idle
               ELSE [r EXCEPT !.pc = "reduce_stock", !.i = r.i + 1, !.prods = << >>]]
        /\ UNCHANGED <<orders, payments, now, paidCalls, paidFlips, price, bkash, result>>

\* OrderService.cancel_order: Order.cancel on the loaded instances, committed
\* as one transaction
CommitCancel(s) ==
    LET r == requests[s]
        c == cancel(r.order, r.prods)
    IN  /\ r.pc = "cancel"
        /\ \A p \in Products : c.products[p].stock <= MaxStock
        /\ products' = [p \in Products |->
                           IF c.given[p] > 0 THEN c.products[p] ELSE products[p]]
        /\ orders' = [orders EXCEPT ![r.id].status = c.order.status]
        /\ reduced' = [reduced EXCEPT ![r.id] =
                          [p \in Products |-> @[p] - c.given[p]]]
        /\ requests' = [requests EXCEPT ![s] = Idle]
        /\ UNCHANGED <<payments, now, paidCalls, paidFlips, price, bkash, result>>

\* checkout only adds rows, so it runs beside any request
CheckoutConc(items) ==
    /\ Len(orders) < MaxOrders
    /\ items_valid(items)
    /\ LET r == create_order_and_initiate_payment(items, "stripe",
                    ProviderSuccess(Len(payments) + 1))
       IN  /\ orders' = r.orders
           /\ payments' = r.payments
    /\ UNCHANGED <<products, now, hist, requests, price, bkash, result>>

NextConc ==
    \/ \E items \in ItemLists : CheckoutConc(items)
    \/ \E s \in Slots, tid \in OrderIds : BeginWebhook(s, tid)
    \/ \E s \in Slots, tid \in OrderIds : BeginPoll(s, tid)
    \/ \E s \in Slots, tid \in OrderIds : BeginConfirm(s, tid)
    \/ \E s \in Slots, o \in OrderIds : BeginCancel(s, o)
    \/ \E s \in Slots : SavePayment(s)
    \/ \E s \in Slots : CheckPending(s)
    \/ \E s \in Slots : SaveOrder(s)
    \/ \E s \in Slots : LoadProduct(s)
    \/ \E s \in Slots : SaveProduct(s)
    \/ \E s \in Slots : CommitCancel(s)

SpecConc == Init /\ [][NextConc]_vars

\* ------------------------------------------------ order creation and checkout
\* the item lists a caller can pass: empty, with a product id that does not
\* exist, with a product twice, with a quantity above the stock
MissingProduct == NumProducts + 1
RequestQuantities == 1..(InitStock + 1)
RequestLists ==
    UNION {[1..n -> [product : Products \cup {MissingProduct},
                     quantity : RequestQuantities]] : n \in 0..NumProducts}

\* transaction ids a provider hands out, and its answers to create_payment
TransactionIds == 1..MaxOrders
ProviderResponses ==
    {ProviderFailure} \cup {ProviderSuccess(t) : t \in TransactionIds}

\* products.views.ProductViewSet update / partial_update by an admin through
\* ProductCreateUpdateSerializer (price > 0, stock >= 0)
UpdateProduct(p, new_price, new_stock, new_status) ==
    /\ new_price > 0
    /\ new_stock >= 0
    /\ new_status \in PRODUCT_STATUS_CHOICES
    /\ price' = [price EXCEPT ![p] = new_price]
    /\ products' = [products EXCEPT ![p] = [stock |-> new_stock, status |-> new_status]]
    /\ UNCHANGED <<orders, payments, now, hist, requests, result, bkash>>

\* orders.services.OrderService.create_order called with `items`
CreateOrder(items) ==
    /\ Len(orders) < MaxOrders
    /\ LET r == create_order(items, [orders |-> orders, payments |-> payments])
       IN  /\ orders' = r.orders
           /\ payments' = r.payments
           /\ result' = [NoResult EXCEPT
                             !.op = "create_order", !.success = ~r.raised,
                             !.errors = r.errors,
                             !.order_id = IF r.raised THEN 0 ELSE Len(r.orders),
                             !.fault = uncaught(r.exception)]
    /\ UNCHANGED <<products, now, hist, requests, price, bkash>>

\* orders.views.OrderViewSet.create: OrderCreateSerializer (at least one
\* item), validate_order_items, then create_order
OrderCreateView(items) ==
    /\ Len(orders) < MaxOrders
    /\ items /= << >>
    /\ IF validate_order_items(items) /= {}
       THEN /\ UNCHANGED <<orders, payments>>
            /\ result' = [NoResult EXCEPT !.op = "create",
                              !.errors = validate_order_items(items)]
       ELSE LET r == create_order(items, [orders |-> orders, payments |-> payments])
            IN  /\ orders' = r.orders
                /\ payments' = r.payments
                /\ result' = [NoResult EXCEPT
                                  !.op = "create", !.success = ~r.raised,
                                  !.errors = r.errors,
                                  !.order_id = IF r.raised THEN 0 ELSE Len(r.orders),
                                  !.fault = uncaught(r.exception)]
    /\ UNCHANGED <<products, now, hist, requests, price, bkash>>

\* orders.views.checkout_view: CheckoutSerializer (at least one item, a
\* provider of PROVIDER_CHOICES), then create_order_and_initiate_payment; the
\* response is kept in `result`
CheckoutView(items, provider, response) ==
    /\ Len(orders) < MaxOrders
    /\ items /= << >>
    /\ provider \in PROVIDER_CHOICES
    /\ LET r == create_order_and_initiate_payment(items, provider, response)
       IN  /\ orders' = r.orders
           /\ payments' = r.payments
           /\ result' = [op |-> "checkout", success |-> ~r.raised,
                         errors |-> r.errors,
                         provider_called |-> r.provider_called,
                         order_id |-> r.order_id, payment_id |-> r.payment_id,
                         transaction_id |-> r.transaction_id, error |-> r.error,
                         fault |-> uncaught(r.exception)]
    /\ UNCHANGED <<products, now, hist, requests, price, bkash>>

NextCheckout ==
    \/ \E p \in Products, st \in {"active", "inactive"} :
          UpdateProduct(p, price[p], products[p].stock, st)
    \/ \E items \in RequestLists : CreateOrder(items)
    \/ \E items \in RequestLists : OrderCreateView(items)
    \/ \E items \in RequestLists, provider \in PROVIDER_CHOICES,
          response \in ProviderResponses : CheckoutView(items, provider, response)

SpecCheckout == Init /\ [][NextCheckout]_vars

\* ------------------------------------------------------- order item rows
\* a sequence without its i-th element
RemoveAt(seq, i) == SubSeq(seq, 1, i - 1) \o SubSeq(seq, i + 1, Len(seq))

\* an order_items table without the unique index on (order, product)
HasProduct_unchecked(o, p) == FALSE

\* order o has a row for product p (unique_together order, product)
HasProduct(o, p) == \E j \in DOMAIN orders[o].items : orders[o].items[j].product = p

\* OrderItem.objects.create(order, product, quantity[, price]) -> OrderItem.save
OrderItemCreate(o, product, quantity, item_price) ==
    /\ o \in DOMAIN orders
    /\ IF HasProduct(o, product)
       THEN UNCHANGED orders
       ELSE orders' = [orders EXCEPT ![o] =
                recalculate_and_save(
                   [@ EXCEPT !.items = Append(@, item_row(product, quantity, item_price))])]
    /\ UNCHANGED <<products, payments, now, hist, requests, price, bkash, result>>

\* OrderItem.save on the i-th row of order o, edited (orders.admin
\* OrderItemAdmin) to belong to order `to` with a new quantity and price: the
\* row is written, then self.order, the order it now points to, is recalculated
OrderItemSave(o, i, to, quantity, item_price) ==
    /\ o \in DOMAIN orders /\ to \in DOMAIN orders
    /\ i \in DOMAIN orders[o].items
    /\ LET row == item_row(orders[o].items[i].product, quantity, item_price)
       IN  IF to = o
           THEN orders' = [orders EXCEPT ![o] =
                    recalculate_and_save([@ EXCEPT !.items[i] = row])]
           ELSE IF HasProduct(to, row.product)
           THEN UNCHANGED orders
           ELSE orders' = [orders EXCEPT
                    ![o].items = RemoveAt(@, i),
                    ![to] = recalculate_and_save([@ EXCEPT !.items = Append(@, row)])]
    /\ UNCHANGED <<products, payments, now, hist, requests, price, bkash, result>>

\* OrderItem.delete on the i-th row of order o
OrderItemDelete(o, i) ==
    /\ o \in DOMAIN orders
    /\ i \in DOMAIN orders[o].items
    /\ orders' = [orders EXCEPT ![o] =
           recalculate_and_save([@ EXCEPT !.items = RemoveAt(@, i)])]
    /\ UNCHANGED <<products, payments, now, hist, requests, price, bkash, result>>

NextItems ==
    \/ \E p \in Products, np \in 1..MaxPrice :
          UpdateProduct(p, np, products[p].stock, products[p].status)
    \/ \E items \in RequestLists : CreateOrder(items)
    \/ \E o \in OrderIds, p \in Products, q \in RequestQuantities,
          ip \in 0..MaxPrice : OrderItemCreate(o, p, q, ip)
    \/ \E o, to \in OrderIds, i \in 1..NumProducts, q \in RequestQuantities,
          ip \in 0..MaxPrice : OrderItemSave(o, i, to, q, ip)
    \/ \E o \in OrderIds, i \in 1..NumProducts : OrderItemDelete(o, i)

SpecItems == Init /\ [][NextItems]_vars

\* order creation beside an admin who reprices and restocks products
NextCreate ==
    \/ \E p \in Products, np \in 1..MaxPrice, ns \in 1..MaxStock :
          UpdateProduct(p, np, ns, products[p].status)
    \/ \E items \in RequestLists : CreateOrder(items)

SpecCreate == Init /\ [][NextCreate]_vars

\* ------------------------------------------- the checkout service, any provider
\* orders.services.CheckoutService.create_order_and_initiate_payment called
\* with the provider name `provider`; the answer is kept in `result`
CheckoutCall(items, provider, response) ==
    /\ Len(orders) < MaxOrders
    /\ LET r == create_order_and_initiate_payment(items, provider, response)
       IN  /\ orders' = r.orders
           /\ payments' = r.payments
           /\ result' = [op |-> "create_order_and_initiate_payment",
                         success |-> ~r.raised, errors |-> r.errors,
                         provider_called |-> r.provider_called,
                         order_id |-> r.order_id, payment_id |-> r.payment_id,
                         transaction_id |-> r.transaction_id, error |-> r.error,
                         fault |-> uncaught(r.exception)]
    /\ UNCHANGED <<products, now, hist, requests, price, bkash>>

NextProvider ==
    \/ \E p \in Products, st \in {"active", "inactive"} :
          UpdateProduct(p, price[p], products[p].stock, st)
    \/ \E items \in RequestLists, provider \in ProviderNames,
          response \in ProviderResponses : CheckoutCall(items, provider, response)

SpecProvider == Init /\ [][NextProvider]_vars

\* ------------------------------------------------ provider notifications
\* what reaches the webhook endpoint: a payload with a valid signature, one
\* whose signature does not verify, one whose body is no event
Deliveries == {"verified", "invalid_signature", "invalid_payload"}

\* handle_webhook that accepts whatever it is given
handle_webhook_unverified(delivery) == [success |-> TRUE, error |-> ""]

\* payments.payment_strategies.StripePaymentStrategy.handle_webhook
handle_webhook(delivery) ==
    CASE delivery = "invalid_payload"   -> [success |-> FALSE, error |-> "Invalid payload"]
      [] delivery = "invalid_signature" -> [success |-> FALSE, error |-> "Invalid signature"]
      [] OTHER                          -> [success |-> TRUE, error |-> ""]

\* the status of the payment intent a Stripe event carries
intent_status(event_type) ==
    CASE event_type = "payment_intent.succeeded"      -> "succeeded"
      [] event_type = "payment_intent.payment_failed" -> "requires_payment_method"
      [] OTHER                                        -> "processing"

\* payments.views.stripe_webhook_view with its response kept in `result`:
\* success is HTTP 200, a failure is HTTP 400
StripeWebhookView(delivery, event_type, tid) ==
    LET r == handle_webhook(delivery)
    IN  /\ Quiescent
        /\ UNCHANGED <<requests, price, bkash>>
        /\ result' = [NoResult EXCEPT !.op = "stripe_webhook",
                          !.success = r.success, !.error = r.error]
        /\ StripeWebhookTables(r.success, event_type, tid, intent_status(event_type))

NextWebhook ==
    \/ \E items \in ItemLists, ok \in BOOLEAN : Checkout(items, ok)
    \/ \E d \in Deliveries, e \in StripeEventTypes, tid \in OrderIds :
          StripeWebhookView(d, e, tid)

SpecWebhook == Init /\ [][NextWebhook]_vars

\* ------------------------------------------- a provider without notifications
\* payments.payment_strategies.BkashPaymentStrategy.handle_webhook
bkash_handle_webhook(delivery) ==
    [success |-> FALSE, error |-> "bKash webhooks not supported"]

\* payments.views.bkash_webhook_view: logs and answers HTTP 200
BkashWebhookView(delivery) ==
    /\ Quiescent
    /\ result' = [NoResult EXCEPT !.op = "bkash_webhook", !.success = TRUE]
    /\ UNCHANGED <<db, now, hist, requests, price, bkash>>

\* the transaction statuses bKash reports while the customer has not
\* completed the payment and once it is completed
BkashStatuses == {"Initiated", "Completed"}

\* a bKash checkout, its notifications and its status polls
NextBkash ==
    \/ \E items \in ItemLists, ok \in BOOLEAN :
          CheckoutView(items, "bkash",
                       IF ok THEN ProviderSuccess(Len(payments) + 1)
                       ELSE ProviderFailure)
    \/ \E d \in Deliveries : BkashWebhookView(d)
    \/ \E tid \in OrderIds, ok \in BOOLEAN, st \in BkashStatuses :
          PaymentStatus(tid, ok, st)

SpecBkash == Init /\ [][NextBkash]_vars

\* the customer keeps polling a payment the provider reports as completed
SpecBkashLive ==
    /\ SpecBkash
    /\ \A tid \in OrderIds : WF_vars(PaymentStatus(tid, TRUE, "Completed"))

\* ------------------------------------------------------ orders and their users
Users == 1..NumUsers

\* the HTTP statuses the order endpoints answer with
HTTP_400_BAD_REQUEST == "400 Bad Request"
HTTP_403_FORBIDDEN   == "403 Forbidden"
HTTP_404_NOT_FOUND   == "404 Not Found"

\* orders.services.OrderService.get_order_details; user Null is user=None
get_order_details(order_id, user) ==
    IF order_id \notin DOMAIN orders
    THEN [raised |-> "DoesNotExist"]
    ELSE IF user /= Null /\ orders[order_id].user /= user
    THEN [raised |-> "ValidationError"]
    ELSE [raised |-> ""]

\* the user argument the order views pass: none for a privileged caller
service_user(user, is_admin) == IF is_admin THEN Null ELSE user

\* orders.services.OrderService.create_order for `user`: the order row keeps
\* the user
CreateOrderBy(user, items) ==
    /\ Len(orders) < MaxOrders
    /\ LET r == create_order(items, [orders |-> orders, payments |-> payments])
       IN  /\ orders' = IF r.raised THEN r.orders
                        ELSE [r.orders EXCEPT ![Len(r.orders)] =
                                 [status |-> @.status, items |-> @.items,
                                  total_amount |-> @.total_amount, user |-> user]]
           /\ payments' = r.payments
           /\ result' = [NoResult EXCEPT
                             !.op = "create_order", !.success = ~r.raised,
                             !.errors = r.errors,
                             !.order_id = IF r.raised THEN 0 ELSE Len(r.orders),
                             !.fault = uncaught(r.exception)]
    /\ UNCHANGED <<products, now, hist, requests, price, bkash>>

\* orders.views.OrderViewSet.retrieve by `user`
OrderRetrieve(o, user, is_admin) ==
    LET g == get_order_details(o, service_user(user, is_admin))
    IN  /\ result' = [NoResult EXCEPT
                          !.op = "retrieve", !.success = (g.raised = ""),
                          !.order_id = IF g.raised = "" THEN o ELSE 0,
                          !.error = CASE g.raised = "DoesNotExist" -> HTTP_404_NOT_FOUND
                                      [] g.raised = "ValidationError" -> HTTP_403_FORBIDDEN
                                      [] OTHER -> ""]
        /\ UNCHANGED <<db, now, hist, requests, price, bkash>>

\* orders.views.OrderViewSet.cancel by `user` -> OrderService.cancel_order:
\* the ownership failure and the failure of Order.cancel are both a
\* ValidationError
OrderCancel(o, user, is_admin) ==
    LET g == get_order_details(o, service_user(user, is_admin))
    IN  /\ Quiescent
        /\ UNCHANGED <<payments, now, paidCalls, paidFlips, requests, price, bkash>>
        /\ IF g.raised /= ""
           THEN /\ UNCHANGED <<products, orders, reduced>>
                /\ result' = [NoResult EXCEPT !.op = "cancel",
                                  !.error = IF g.raised = "DoesNotExist"
                                            THEN HTTP_404_NOT_FOUND
                                            ELSE HTTP_400_BAD_REQUEST]
           ELSE LET r == cancel(orders[o], products)
                IN  /\ orders' = [orders EXCEPT ![o] = r.order]
                    /\ products' = r.products
                    /\ reduced' = [reduced EXCEPT ![o] =
                                      [p \in Products |-> @[p] - r.given[p]]]
                    /\ result' = [NoResult EXCEPT !.op = "cancel",
                                      !.success = ~r.raised, !.order_id = o,
                                      !.error = IF r.raised THEN HTTP_400_BAD_REQUEST
                                                ELSE ""]

NextOwner ==
    \/ \E u \in Users, items \in ItemLists : CreateOrderBy(u, items)
    \/ \E o \in OrderIds, u \in Users, a \in BOOLEAN : OrderRetrieve(o, u, a)
    \/ \E o \in OrderIds, u \in Users, a \in BOOLEAN : OrderCancel(o, u, a)

SpecOwner == Init /\ [][NextOwner]_vars

\* ------------------------------------------------------------ refunds
\* the error texts of refund_payment_view
AdminRequired   == "Permission denied. Admin access required."
PaymentNotFound == "404 Not Found"
CannotRefund    == "Payment cannot be refunded"
RefundFailed    == "Refund failed"

\* payments.views.refund_payment_view with its response kept in `result`
RefundPaymentView(pid, is_admin, provider_ok) ==
    /\ Quiescent
    /\ UNCHANGED <<products, orders, now, hist, requests, price, bkash>>
    /\ RefundPaymentTables(pid, is_admin, provider_ok)
    /\ result' =
          IF ~is_admin
          THEN [NoResult EXCEPT !.op = "refund", !.error = AdminRequired]
          ELSE IF pid \notin DOMAIN payments
          THEN [NoResult EXCEPT !.op = "refund", !.error = PaymentNotFound]
          ELSE IF ~can_be_refunded(payments[pid])
          THEN [NoResult EXCEPT !.op = "refund", !.error = CannotRefund,
                                !.payment_id = pid]
          ELSE IF ~provider_ok
          THEN [NoResult EXCEPT !.op = "refund", !.error = RefundFailed,
                                !.payment_id = pid, !.provider_called = TRUE]
          ELSE [NoResult EXCEPT !.op = "refund", !.success = TRUE,
                                !.payment_id = pid, !.provider_called = TRUE]

\* payments.admin.PaymentAdmin: an admin saves a payment with another status
PaymentAdminSave(pid, status) ==
    /\ Quiescent
    /\ pid \in DOMAIN payments
    /\ status \in PAYMENT_STATUS_CHOICES
    /\ payments' = [payments EXCEPT ![pid].status = status]
    /\ UNCHANGED <<products, orders, now, hist, requests, price, bkash, result>>

NextRefund ==
    \/ \E items \in ItemLists, ok \in BOOLEAN : Checkout(items, ok)
    \/ \E pid \in OrderIds, st \in PAYMENT_STATUS_CHOICES : PaymentAdminSave(pid, st)
    \/ \E pid \in OrderIds, a \in BOOLEAN, ok \in BOOLEAN :
          RefundPaymentView(pid, a, ok)

SpecRefund == Init /\ [][NextRefund]_vars

\* refunds of payments the provider reported on
NextRefundPaid ==
    \/ \E items \in ItemLists, provider \in PROVIDER_CHOICES, ok \in BOOLEAN :
          CheckoutView(items, provider,
                       IF ok THEN ProviderSuccess(Len(payments) + 1)
                       ELSE ProviderFailure)
    \/ \E d \in Deliveries, e \in StripeEventTypes, tid \in OrderIds :
          StripeWebhookView(d, e, tid)
    \/ \E pid \in OrderIds, a \in BOOLEAN, ok \in BOOLEAN :
          RefundPaymentView(pid, a, ok)

SpecRefundPaid == Init /\ [][NextRefundPaid]_vars

\* ------------------------------------------------------------ confirmation
\* the statuses a provider's confirm / execute call can answer with when the
\* call itself went through: Stripe's payment intent statuses, bKash's
\* transactionStatus
ConfirmStatuses(provider) ==
    IF provider = "bkash" THEN {"Completed", "Initiated"}
    ELSE {"succeeded", "requires_action"}

\* the error texts of confirm_payment_view and payment_status_view
CannotConfirm == "Payment cannot be confirmed"
ConfirmFailed == "Payment confirmation failed"
StatusFailed  == "Failed to get payment status"

\* payments.views.confirm_payment_view called by the order's user, with its
\* response kept in `result`; the payment row keeps the provider's answer,
\* which is one of the statuses of the payment's provider
ConfirmPaymentView(tid, provider_ok, provider_status) ==
    /\ Quiescent
    /\ tid \in DOMAIN payments =>
          provider_status \in ConfirmStatuses(payments[tid].provider)
    /\ UNCHANGED <<requests, price, bkash>>
    /\ ConfirmPaymentTables(tid, provider_ok,
                            IF provider_ok THEN provider_status ELSE "error")
    /\ result' =
          IF tid \notin DOMAIN payments
          THEN [NoResult EXCEPT !.op = "confirm", !.error = PaymentNotFound]
          ELSE IF ~is_pending(payments[tid])
          THEN [NoResult EXCEPT !.op = "confirm", !.error = CannotConfirm,
                                !.payment_id = tid]
          ELSE IF provider_ok
          THEN [NoResult EXCEPT !.op = "confirm", !.success = TRUE,
                                !.payment_id = tid, !.provider_called = TRUE]
          ELSE [NoResult EXCEPT !.op = "confirm", !.error = ConfirmFailed,
                                !.payment_id = tid, !.provider_called = TRUE]

\* payments.views.payment_status_view called by the order's user, with its
\* response kept in `result`; the payment row keeps the provider's answer
PaymentStatusView(tid, provider_ok, provider_status) ==
    /\ Quiescent
    /\ UNCHANGED <<requests, price, bkash>>
    /\ PaymentStatusTables(tid, provider_ok, provider_status, provider_status)
    /\ result' =
          IF tid \notin DOMAIN payments
          THEN [NoResult EXCEPT !.op = "status", !.error = PaymentNotFound]
          ELSE IF ~provider_ok
          THEN [NoResult EXCEPT !.op = "status", !.error = StatusFailed,
                                !.payment_id = tid, !.provider_called = TRUE]
          ELSE [NoResult EXCEPT !.op = "status", !.success = TRUE,
                                !.payment_id = tid, !.provider_called = TRUE]

\* checkout and the three channels that report on a payment
NextConfirm ==
    \/ \E items \in ItemLists, provider \in PROVIDER_CHOICES, ok \in BOOLEAN :
          CheckoutView(items, provider,
                       IF ok THEN ProviderSuccess(Len(payments) + 1)
                       ELSE ProviderFailure)
    \/ \E tid \in OrderIds, ok \in BOOLEAN,
          st \in ConfirmStatuses("stripe") \cup ConfirmStatuses("bkash") :
          ConfirmPaymentView(tid, ok, st)
    \/ \E tid \in OrderIds, ok \in BOOLEAN, st \in ProviderStatuses :
          PaymentStatusView(tid, ok, st)
    \/ \E d \in Deliveries, e \in StripeEventTypes, tid \in OrderIds :
          StripeWebhookView(d, e, tid)

SpecConfirm == Init /\ [][NextConfirm]_vars

\* ------------------------------------------------ cancel requests in flight
\* OrderService.cancel_order -> get_order_details, its first query:
\* Order.objects...get(id=order_id) reads the order row
GetOrder(s, o) ==
    /\ o \in DOMAIN orders
    /\ Begin(s, "cancel", "prefetch", o, orders[o], << >>)

\* get_order_details, the queries of prefetch_related('items__product'): the
\* product rows are read as they are now
PrefetchProducts(s) ==
    /\ requests[s].pc = "prefetch"
    /\ requests' = [requests EXCEPT ![s].pc = "cancel", ![s].prods = products]
    /\ UNCHANGED <<db, now, hist, price, bkash, result>>

\* orders get paid while no request is in flight; cancel requests run query
\* by query
NextCancel ==
    \/ \E items \in ItemLists, ok \in BOOLEAN : Checkout(items, ok)
    \/ \E v \in BOOLEAN, e \in StripeEventTypes, tid \in OrderIds :
          StripeWebhook(v, e, tid)
    \/ \E s \in Slots, o \in OrderIds : GetOrder(s, o)
    \/ \E s \in Slots : PrefetchProducts(s)
    \/ \E s \in Slots : CommitCancel(s)

SpecCancel == Init /\ [][NextCancel]_vars

\* ------------------------------------------------ products taken off sale
\* the order / payment engine beside an admin who takes products off sale
\* (ProductViewSet update with status inactive) and never puts one back
NextInactive ==
    \/ \E p \in Products : UpdateProduct(p, price[p], products[p].stock, "inactive")
    \/ \E items \in ItemLists, ok \in BOOLEAN : Checkout(items, ok)
    \/ \E v \in BOOLEAN, e \in StripeEventTypes, tid \in OrderIds :
          StripeWebhook(v, e, tid)
    \/ \E o \in OrderIds : CancelOrder(o)

SpecInactive == Init /\ [][NextInactive]_vars

\* ------------------------------------------------------------ product stock
\* the quantities reduce_stock and increase_stock are called with: negative,
\* zero, within the stock, above it
StockQuantities == (0 - 1)..(MaxStock + 1)

\* products.models.Product.reduce_stock called on product p
ReduceStock(p, quantity) ==
    LET r == reduce_stock(products[p], quantity)
    IN  /\ products' = [products EXCEPT ![p] = r.product]
        /\ result' = [NoResult EXCEPT !.op = "reduce_stock", !.success = ~r.raised]
        /\ UNCHANGED <<orders, payments, now, hist, requests, price, bkash>>

\* products.models.Product.increase_stock called on product p
IncreaseStock(p, quantity) ==
    LET r == increase_stock(products[p], quantity)
    IN  /\ r.product.stock <= MaxStock
        /\ products' = [products EXCEPT ![p] = r.product]
        /\ result' = [NoResult EXCEPT !.op = "increase_stock", !.success = ~r.raised]
        /\ UNCHANGED <<orders, payments, now, hist, requests, price, bkash>>

NextStock ==
    \/ \E p \in Products, st \in PRODUCT_STATUS_CHOICES :
          UpdateProduct(p, price[p], products[p].stock, st)
    \/ \E p \in Products, q \in StockQuantities : ReduceStock(p, q)
    \/ \E p \in Products, q \in StockQuantities : IncreaseStock(p, q)

SpecStock == Init /\ [][NextStock]_vars

\* reduce_stock and increase_stock called directly and by Order.mark_as_paid
\* and Order.cancel, on products nothing else writes
NextStockCalls ==
    \/ \E p \in Products, q \in StockQuantities : ReduceStock(p, q)
    \/ \E p \in Products, q \in StockQuantities : IncreaseStock(p, q)
    \/ \E items \in ItemLists, ok \in BOOLEAN : Checkout(items, ok)
    \/ \E v \in BOOLEAN, e \in StripeEventTypes, tid \in OrderIds :
          StripeWebhook(v, e, tid)
    \/ \E o \in OrderIds : CancelOrder(o)

SpecStockCalls == Init /\ [][NextStockCalls]_vars

\* ------------------------------------------------ the token-and-poll provider
\* get_payment_strategy('bkash') builds a new instance
NewStrategy ==
    /\ bkash' = BkashPaymentStrategy(bkash.grants)
    /\ UNCHANGED <<db, now, hist, requests, price, result>>

\* the provider's lifetime of the token held runs out
TokenExpires ==
    /\ bkash.token /= Null
    /\ ~bkash.expired
    /\ bkash' = [bkash EXCEPT !.expired = TRUE]
    /\ UNCHANGED <<db, now, hist, requests, price, result>>

\* an operation called on the instance
BkashOperation(op, grant_ok) ==
    LET r == bkash_operation(bkash, op, grant_ok)
    IN  /\ r.strategy.grants <= MaxGrants
        /\ bkash' = r.strategy
        /\ result' = [NoResult EXCEPT !.op = op, !.success = r.success]
        /\ UNCHANGED <<db, now, hist, requests, price>>

NextToken ==
    \/ NewStrategy
    \/ TokenExpires
    \/ \E op \in BkashOperations, ok \in BOOLEAN : BkashOperation(op, ok)

SpecToken == Init /\ [][NextToken]_vars

\* ================================================================ claims
\* the items of order o, and the quantity it orders of product p
ItemsOf(o) == orders[o].items
QtyOf(o, p) ==
    IF \E i \in DOMAIN ItemsOf(o) : ItemsOf(o)[i].product = p
    THEN (CHOOSE it \in {ItemsOf(o)[i] : i \in DOMAIN ItemsOf(o)} : it.product = p).quantity
    ELSE 0

\* a step in which mark_as_paid was called on order o
MarkPaidCalled(o) == paidCalls'[o] = paidCalls[o] + 1

\* C1: under any interleaving of success reports for a payment, the order's
\* pending->paid flip takes effect at most once and every item's stock is
\* decremented by its quantity once in total.
C1_ExactlyOnce ==
    \A o \in DOMAIN orders :
        /\ paidFlips[o] <= 1
        /\ \A p \in Products : reduced[o][p] <= QtyOf(o, p)

\* C2 (as stated): the first mark_as_paid call on a pending order sets it paid
\* and reduces each item's product stock by the item quantity; a call on an
\* order that is not pending is rejected and changes neither status nor stock.
C2_MarkPaidReducesEveryItem ==
    [][\A o \in DOMAIN orders :
          MarkPaidCalled(o) =>
             IF orders[o].status = "pending"
             THEN /\ orders'[o].status = "paid"
                  /\ paidCalls[o] = 0 =>
                        \A p \in Products :
                           products'[p].stock = products[p].stock - QtyOf(o, p)
             ELSE /\ orders' = orders
                  /\ products' = products]_vars

\* every item up to index i finds enough stock
SufficientUpTo(o, i) ==
    \A j \in 1..i :
        products[ItemsOf(o)[j].product].stock >= ItemsOf(o)[j].quantity

\* C2 (amended): a mark_as_paid call on a pending order sets it paid and
\* reduces, in item order, the stock of every item up to the first one whose
\* product has less stock than the item quantity (all of them when stock
\* suffices); a call on an order that is not pending is rejected and changes
\* neither the order's status nor any stock.
C2_MarkPaidOnlyFromPending ==
    [][\A o \in DOMAIN orders :
          MarkPaidCalled(o) =>
             IF orders[o].status = "pending"
             THEN /\ orders'[o].status = "paid"
                  /\ paidFlips'[o] = paidFlips[o] + 1
                  /\ \A i \in DOMAIN ItemsOf(o) :
                        LET p == ItemsOf(o)[i].product
                        IN  products'[p].stock =
                               IF SufficientUpTo(o, i)
                               THEN products[p].stock - ItemsOf(o)[i].quantity
                               ELSE products[p].stock
                  /\ \A p \in Products : QtyOf(o, p) = 0 => products'[p] = products[p]
             ELSE /\ orders' = orders
                  /\ products' = products
                  /\ reduced' = reduced
                  /\ paidFlips' = paidFlips]_vars

\* C2 witness: an order was marked paid once with its stock taken, and a later
\* mark_as_paid call on it was rejected.
C2_Witness ==
    \E o \in DOMAIN orders :
        /\ paidCalls[o] = 2
        /\ paidFlips[o] = 1
        /\ orders[o].status = "paid"
        /\ \A p \in Products : reduced[o][p] = QtyOf(o, p)

\* C3: failed, cancelled and refunded are terminal: no step changes the status
\* of a payment that is failed, cancelled or refunded.
C3_TerminalStatusesStay ==
    [][\A pid \in DOMAIN payments :
          payments[pid].status \in {"failed", "cancelled", "refunded"}
             => payments'[pid].status = payments[pid].status]_vars

\* C4: the only status change applied to a success payment is
\* success -> refunded.
C4_SuccessOnlyToRefunded ==
    [][\A pid \in DOMAIN payments :
          payments[pid].status = "success"
             => payments'[pid].status \in {"success", "refunded"}]_vars

\* C5: re-entering success is a no-op: a success transition applied to a
\* payment that is already success leaves the payment row, the order's status
\* and all stock as they were.
C5_ReenteringSuccessIsNoOp ==
    [][\A pid \in DOMAIN payments :
          (payments[pid].status = "success" /\ payments'[pid].status = "success")
             => /\ payments'[pid] = payments[pid]
                /\ MarkPaidCalled(payments[pid].order)
                      => /\ orders'[payments[pid].order] = orders[payments[pid].order]
                         /\ products' = products]_vars

\* C6: completed_at is null while the payment has entered no terminal status,
\* and once set it is never overwritten.
C6_CompletedAtSetOnce ==
    /\ [](\A pid \in DOMAIN payments :
             payments[pid].status \in {"pending", "processing"}
                => payments[pid].completed_at = Null)
    /\ [][\A pid \in DOMAIN payments :
             payments[pid].completed_at /= Null
                => payments'[pid].completed_at = payments[pid].completed_at]_vars

\* the order status state machine of the design
AllowedOrderTransitions ==
    { <<"pending", "paid">>, <<"paid", "processing">>,
      <<"processing", "shipped">>, <<"shipped", "delivered">>,
      <<"pending", "cancelled">>, <<"paid", "cancelled">> }

\* C7: every change of an order's status follows an edge of the order state
\* machine; any other requested change leaves the status as it was.
C7_OrderTransitionsAllowed ==
    [][\A o \in DOMAIN orders :
          orders'[o].status /= orders[o].status
             => <<orders[o].status, orders'[o].status>> \in AllowedOrderTransitions]_vars

\* C8: cancelling a shipped or delivered order fails and changes neither the
\* order nor any stock, and a shipped or delivered order never becomes
\* pending or cancelled.
C8_ShippedNeverCancelled ==
    /\ [](\A o \in DOMAIN orders :
             orders[o].status \in {"shipped", "delivered"}
                => LET c == cancel(orders[o], products)
                   IN  c.raised /\ c.order = orders[o] /\ c.products = products)
    /\ [][\A o \in DOMAIN orders :
             orders[o].status \in {"shipped", "delivered"}
                => orders'[o].status \notin {"pending", "cancelled"}]_vars

\* C9: cancelling a paid order sets it cancelled and gives back to every
\* product exactly the quantity this order's mark_as_paid took from it;
\* cancelling a pending order sets it cancelled and changes no stock.
C9_CancelRestoresWhatWasTaken ==
    [][\A o \in DOMAIN orders :
          CancelOrder(o) =>
             /\ orders[o].status = "paid" =>
                   /\ orders'[o].status = "cancelled"
                   /\ \A p \in Products :
                         products'[p].stock = products[p].stock + reduced[o][p]
             /\ orders[o].status = "pending" =>
                   /\ orders'[o].status = "cancelled"
                   /\ products' = products]_vars

\* C10: a cancel and a success report racing on a pending order end as one of
\* their serial orders: once every request has finished, a cancelled order
\* holds no stock decrement, and an order never turns paid after its cancel
\* took effect.
C10_CancelSerializesWithSuccess ==
    /\ [](Quiescent =>
             \A o \in DOMAIN orders :
                orders[o].status = "cancelled"
                   => \A p \in Products : reduced[o][p] <= 0)
    /\ [][\A o \in DOMAIN orders :
             orders[o].status = "cancelled" => orders'[o].status /= "paid"]_vars

\* C11: when a payment's success transition runs while its order is not
\* pending (for instance already cancelled), the payment still ends in status
\* success with completed_at set, and the order and all stock stay as they
\* were: the rejection by mark_as_paid does not stop the handler.
C11_SuccessOnNonPendingOrder ==
    [][\A pid \in DOMAIN payments :
          LET o == payments[pid].order
          IN  (MarkPaidCalled(o) /\ orders[o].status /= "pending")
                 => /\ payments'[pid].status = "success"
                    /\ payments'[pid].completed_at = now
                    /\ payments'[pid].completed_at /= Null
                    /\ orders' = orders
                    /\ products' = products]_vars

\* C11 witness: a payment is success with completed_at set, its order is
\* cancelled, and every mark_as_paid call on the order was rejected.
C11_Witness ==
    \E pid \in DOMAIN payments :
        LET o == payments[pid].order
        IN  /\ payments[pid].status = "success"
            /\ payments[pid].completed_at /= Null
            /\ orders[o].status = "cancelled"
            /\ paidCalls[o] >= 1
            /\ paidFlips[o] = 0

\* C12: when reduce_stock fails for an item during mark_as_paid because the
\* product's stock is below the item quantity, the failure is not propagated:
\* the order ends paid and the payment that triggered it ends success.
C12_StockFailureNotPropagated ==
    [][\A pid \in DOMAIN payments :
          LET o == payments[pid].order
          IN  (/\ MarkPaidCalled(o)
               /\ orders[o].status = "pending"
               /\ ~SufficientUpTo(o, Len(ItemsOf(o))))
                 => /\ orders'[o].status = "paid"
                    /\ payments'[pid].status = "success"]_vars

\* C12 witness: two orders are paid by one mark_as_paid call each; the first
\* took the stock of a product, the second found none of it left, and the
\* second order's payment is success.
C12_Witness ==
    \E o1, o2 \in DOMAIN orders : \E p \in Products :
        /\ o1 /= o2
        /\ orders[o1].status = "paid" /\ orders[o2].status = "paid"
        /\ paidCalls[o1] = 1 /\ paidFlips[o1] = 1
        /\ paidCalls[o2] = 1 /\ paidFlips[o2] = 1
        /\ QtyOf(o1, p) > 0 /\ reduced[o1][p] = QtyOf(o1, p)
        /\ QtyOf(o2, p) > 0 /\ reduced[o2][p] = 0
        /\ products[p].stock = 0
        /\ \E pid \in DOMAIN payments :
              payments[pid].order = o2 /\ payments[pid].status = "success"

\* C13: mark_as_paid is one atomic unit per order: an order with several
\* items is never seen paid with only a strict subset of its items' stock
\* decrements applied.
C13_MarkPaidAllOrNothing ==
    \A o \in DOMAIN orders :
        (Len(ItemsOf(o)) > 1 /\ orders[o].status = "paid")
           => \A p \in Products : reduced[o][p] = QtyOf(o, p)

\* the quantity of product p all orders hold, over orders 1..n
RECURSIVE TakenFrom(_, _)
TakenFrom(p, n) == IF n = 0 THEN 0 ELSE reduced[n][p] + TakenFrom(p, n - 1)

\* C14: stock decrements issued concurrently for different orders on one
\* product are not lost: while no order was cancelled and no order was marked
\* paid twice, the stock of every product is its initial stock less the
\* quantities of the decrements that succeeded, and it is never negative.
C14_NoLostStockUpdate ==
    (\A o \in DOMAIN orders :
        orders[o].status /= "cancelled" /\ paidFlips[o] <= 1)
       => \A p \in Products :
             /\ products[p].stock >= 0
             /\ products[p].stock = InitStock - TakenFrom(p, MaxOrders)

\* C15: after any sequence of order item creations, saves and deletions, the
\* persisted total_amount of every order is the sum of the subtotals of the
\* items that belong to it.
C15_TotalIsSumOfSubtotals ==
    \A o \in DOMAIN orders :
        orders[o].total_amount = calculate_total(orders[o].items)

\* the sum of quantity x the product's current price over item rows
RECURSIVE PricedTotal(_)
PricedTotal(items) ==
    IF items = << >> THEN 0
    ELSE Head(items).quantity * price[Head(items).product] + PricedTotal(Tail(items))

\* C16: the order create_order returns holds, for each of its items, the
\* product's price at creation and the subtotal quantity x that price, and
\* its total_amount is the sum of quantity x price at creation; a later change
\* of a product's price changes no item price, subtotal or order total.
C16_TotalAtCreationPrices ==
    [][/\ Len(orders') = Len(orders) + 1
             => LET order == orders'[Len(orders')]
                IN  /\ result'.success /\ result'.order_id = Len(orders')
                    /\ \A i \in DOMAIN order.items :
                          /\ order.items[i].price = price[order.items[i].product]
                          /\ order.items[i].subtotal =
                                order.items[i].quantity * price[order.items[i].product]
                    /\ order.total_amount = PricedTotal(order.items)
       /\ price' /= price => orders' = orders]_vars

\* C16 witness: an order holds an item of quantity 2 whose captured price is
\* no longer the product's price, and its total is still quantity x the
\* captured price.
C16_Witness ==
    \E o \in DOMAIN orders :
        /\ Len(orders[o].items) = 1
        /\ orders[o].items[1].quantity = 2
        /\ orders[o].items[1].price /= price[orders[o].items[1].product]
        /\ orders[o].total_amount = 2 * orders[o].items[1].price

\* an item list create_order and validate_order_items reject: it is empty, or
\* an item names a product that does not exist, is not available, or has
\* less stock than the quantity asked for
Rejected(items) ==
    \/ items = << >>
    \/ \E i \in DOMAIN items :
          \/ items[i].product \notin Products
          \/ products[items[i].product].status /= "active"
          \/ products[items[i].product].stock = 0
          \/ products[items[i].product].stock < items[i].quantity

\* a step that answers with a failure and leaves the orders, their items and
\* the payments as they were
FailedWithNothingPersisted ==
    /\ ~result'.success
    /\ orders' = orders
    /\ payments' = payments

\* C17: create_order is all-or-nothing: a call with a rejected item list
\* fails and persists no order and no item, also when earlier items of the
\* list were valid and already inserted (every step either is such a failure
\* or is no create_order call of a rejected list); no persisted order is
\* without items.
C17_CreateOrderAllOrNothing ==
    /\ [](\A o \in DOMAIN orders : orders[o].items /= << >>)
    /\ [][\A items \in RequestLists :
             Rejected(items)
                => (FailedWithNothingPersisted \/ ~CreateOrder(items))]_vars

\* C17 witness: a create_order call failed on its second item, after the
\* first one was inserted, and no order is persisted.
C17_Witness ==
    /\ result.op = "create_order"
    /\ ~result.success
    /\ result.errors = {2}
    /\ orders = << >>

\* the items of a list that validation has to report
RejectedItems(items) ==
    {i \in DOMAIN items :
        \/ items[i].product \notin Products
        \/ products[items[i].product].status /= "active"
        \/ products[items[i].product].stock = 0
        \/ products[items[i].product].stock < items[i].quantity}

C19_FailedCheckoutKeepsOrder ==
    [][(/\ result' /= result
        /\ result'.op = "checkout"
        /\ ~result'.success
        /\ result'.provider_called)
          => /\ Len(orders') = Len(orders) + 1
             /\ orders'[Len(orders')].status = "pending"
             /\ \A k \in DOMAIN payments' : payments'[k].order /= Len(orders')]_vars

\* C20: a checkout that answers success persisted exactly one new order,
\* pending, and exactly one new payment for it: pending, with the order's
\* total_amount as amount, the requested provider and the transaction id the
\* provider returned; the answer carries the order id, the payment id and the
\* transaction id.
C20_CheckoutSuccessPersistsBoth ==
    [][\A items \in RequestLists, provider \in PROVIDER_CHOICES,
         response \in ProviderResponses :
          (result'.success /\ result'.op = "checkout"
              /\ CheckoutView(items, provider, response))
             => /\ Len(orders') = Len(orders) + 1
                /\ SubSeq(orders', 1, Len(orders)) = orders
                /\ Len(payments') = Len(payments) + 1
                /\ SubSeq(payments', 1, Len(payments)) = payments
                /\ LET order == orders'[Len(orders')]
                       payment == payments'[Len(payments')]
                   IN  /\ order.status = "pending"
                       /\ payment.order = Len(orders')
                       /\ payment.status = "pending"
                       /\ payment.amount = order.total_amount
                       /\ payment.provider = provider
                       /\ response.success
                       /\ payment.transaction_id = response.transaction_id
                       /\ result'.order_id = Len(orders')
                       /\ result'.payment_id = Len(payments')
                       /\ result'.transaction_id = response.transaction_id]_vars

\* C20 witness: the last checkout answered success for a bKash payment of a
\* two-item order; the order and the payment it names are pending and the
\* payment's amount is the order's total.
C20_Witness ==
    /\ result.op = "checkout"
    /\ result.success
    /\ result.order_id \in DOMAIN orders
    /\ result.payment_id \in DOMAIN payments
    /\ orders[result.order_id].status = "pending"
    /\ Len(orders[result.order_id].items) = 2
    /\ payments[result.payment_id].order = result.order_id
    /\ payments[result.payment_id].status = "pending"
    /\ payments[result.payment_id].provider = "bkash"
    /\ payments[result.payment_id].amount = orders[result.order_id].total_amount
    /\ payments[result.payment_id].transaction_id = result.transaction_id

\* the names the provider factory knows, in the spellings a caller can use
KnownSpellings == {"stripe", "bkash", "Stripe", "BKASH"}

\* an item list that names a product twice
NamesProductTwice(items) ==
    \E i, j \in DOMAIN items : i < j /\ items[i].product = items[j].product

C22_TransactionIdUnique ==
    /\ [](\A i, j \in DOMAIN payments :
             payments[i].transaction_id = payments[j].transaction_id => i = j)
    /\ [](\A items \in RequestLists, provider \in PROVIDER_CHOICES,
             k \in DOMAIN payments :
             LET r == create_order_and_initiate_payment(items, provider,
                         ProviderSuccess(payments[k].transaction_id))
             IN  r.raised /\ r.payments = payments)
    /\ [][(result' /= result /\ result'.error = DuplicateEntry)
             => /\ ~result'.success
                /\ payments' = payments]_vars

\* C22 witness: a payment is stored, and a later checkout for which the
\* provider was called answered the duplicate-entry failure; the table still
\* holds the one payment.
C22_Witness ==
    /\ result.error = DuplicateEntry
    /\ result.provider_called
    /\ ~result.success
    /\ Len(payments) = 1

\* C23: the Stripe webhook handler changes payments, orders or stock only for
\* a payload that passes verification, with event type payment_intent.succeeded
\* or payment_intent.payment_failed, for a transaction id that a payment has;
\* a payload with an invalid signature or a malformed body is answered with an
\* error and changes nothing; a verified event of another type or for an
\* unknown transaction id is answered with success and changes nothing.
C23_WebhookChangesOnlyWhenVerified ==
    [][\A d \in Deliveries, e \in StripeEventTypes, tid \in OrderIds :
          StripeWebhookView(d, e, tid) =>
             /\ d /= "verified"
                   => /\ ~result'.success /\ result'.error /= ""
                      /\ UNCHANGED <<db, now, hist>>
             /\ (d = "verified" /\ (e = "other" \/ tid \notin DOMAIN payments))
                   => /\ result'.success
                      /\ UNCHANGED <<db, now, hist>>
             /\ <<db, hist>>' /= <<db, hist>>
                   => /\ d = "verified"
                      /\ e \in {"payment_intent.succeeded",
                                "payment_intent.payment_failed"}
                      /\ tid \in DOMAIN payments
                      /\ result'.success]_vars

\* C23 witness: a verified payment_failed event moved a payment to failed,
\* another payment is still pending, and the last webhook, whose signature did
\* not verify, was answered with an error.
C23_Witness ==
    /\ result.op = "stripe_webhook"
    /\ ~result.success
    /\ result.error = "Invalid signature"
    /\ \E pid \in DOMAIN payments : payments[pid].status = "failed"
    /\ \E pid \in DOMAIN payments : payments[pid].status = "pending"

\* the status of the payment with transaction id tid, if there is one
StatusOf(tid) ==
    IF tid \in DOMAIN payments THEN payments[tid].status ELSE "none"

\* C24: for the provider without webhook support, handle_webhook answers
\* unsupported for every payload and the bKash webhook endpoint changes no
\* payment, order or stock; a status poll for which the provider reports a
\* completed payment moves a pending payment to success and its pending order
\* to paid; under repeated polling of a payment the provider reports as
\* completed, a pending payment eventually is success.
C24_PollingConverges ==
    /\ [](\A d \in Deliveries : ~bkash_handle_webhook(d).success)
    /\ [][\A d \in Deliveries :
             BkashWebhookView(d) => UNCHANGED <<db, now, hist>>]_vars
    /\ [][\A tid \in DOMAIN payments :
             (payments[tid].status = "pending"
                 /\ PaymentStatus(tid, TRUE, "Completed"))
                => /\ payments'[tid].status = "success"
                   /\ orders[payments[tid].order].status = "pending"
                         => orders'[payments[tid].order].status = "paid"]_vars
    /\ \A tid \in OrderIds :
          (StatusOf(tid) = "pending") ~> (StatusOf(tid) = "success")

\* C24 witness: a bKash payment reached success and its order paid, with no
\* step but checkouts, bKash notifications and status polls.
C24_Witness ==
    \E pid \in DOMAIN payments :
        /\ payments[pid].provider = "bkash"
        /\ payments[pid].status = "success"
        /\ orders[payments[pid].order].status = "paid"
        /\ result.op = "bkash_webhook"

\* C25: a caller without admin privileges never reads or cancels an order of
\* another user: retrieve and cancel by a user who is not the owner answer
\* Forbidden and change nothing, a missing order id answers NotFound, and only
\* the owner or an admin gets the order or has it cancelled.
C25_OnlyOwnerOrAdmin ==
    [][\A o \in OrderIds, u \in Users, a \in BOOLEAN :
          (OrderRetrieve(o, u, a) \/ OrderCancel(o, u, a)) =>
             /\ o \notin DOMAIN orders
                   => /\ result'.error = HTTP_404_NOT_FOUND
                      /\ UNCHANGED <<db, hist>>
             /\ (o \in DOMAIN orders /\ ~a /\ orders[o].user /= u)
                   => /\ result'.error = HTTP_403_FORBIDDEN
                      /\ UNCHANGED <<db, hist>>
             /\ result'.success
                   => (o \in DOMAIN orders /\ (a \/ orders[o].user = u))]_vars

\* C26: can_be_refunded is true exactly for status success, for each of the
\* six payment statuses; a refund of a payment in any other status answers an
\* error, does not call the provider and leaves the payment as it was.
C26_RefundOnlyFromSuccess ==
    /\ [](\A st \in PAYMENT_STATUS_CHOICES :
             can_be_refunded([status |-> st]) <=> st = "success")
    /\ [](\A pid \in DOMAIN payments :
             can_be_refunded(payments[pid]) <=> payments[pid].status = "success")
    /\ [][\A pid \in DOMAIN payments, ok \in BOOLEAN :
             (payments[pid].status /= "success" /\ RefundPaymentView(pid, TRUE, ok))
                => /\ ~result'.success
                   /\ result'.error = CannotRefund
                   /\ ~result'.provider_called
                   /\ payments' = payments]_vars

\* C26 witness: an admin's refund of a payment that is already refunded was
\* answered with the cannot-be-refunded error, without a provider call.
C26_Witness ==
    /\ result.op = "refund"
    /\ ~result.success
    /\ result.error = CannotRefund
    /\ ~result.provider_called
    /\ result.payment_id \in DOMAIN payments
    /\ payments[result.payment_id].status = "refunded"
    /\ payments[result.payment_id].refund

\* a step in which mark_as_failed wrote payment pid
MarkedFailed(pid) ==
    /\ payments'[pid].status = "failed"
    /\ payments'[pid] /= payments[pid]

\* C27: the failed transition of a payment sets status failed, records the
\* provider's error text in error_message and sets completed_at, and leaves
\* every order's status and every product's stock as they were, on every path
\* that drives a payment to failed (webhook, confirm, status poll).
C27_FailedRecordsError ==
    [][\A pid \in DOMAIN payments :
          MarkedFailed(pid) =>
             /\ payments'[pid].error_message = "provider_error"
             /\ payments'[pid].completed_at = now
             /\ orders' = orders
             /\ products' = products]_vars

\* C28: every stored order item has subtotal = quantity x price, whatever
\* creations, saves and deletions of items took place; an item created
\* without a price gets the product's price of that moment.
C28_SubtotalIsQuantityTimesPrice ==
    /\ [](\A o \in DOMAIN orders : \A i \in DOMAIN orders[o].items :
             orders[o].items[i].subtotal =
                orders[o].items[i].quantity * orders[o].items[i].price)
    /\ [][\A o \in DOMAIN orders, p \in Products, q \in RequestQuantities :
             OrderItemCreate(o, p, q, 0) =>
                \/ orders' = orders
                \/ LET row == orders'[o].items[Len(orders'[o].items)]
                   IN  /\ row.product = p /\ row.quantity = q
                       /\ row.price = price[p]
                       /\ row.subtotal = q * price[p]]_vars

\* C28 witness: an order holds two items saved with different quantities and
\* prices, the first with a quantity and a price above one, each with the
\* subtotal quantity x price.
C28_Witness ==
    \E o \in DOMAIN orders :
        /\ Len(orders[o].items) = 2
        /\ orders[o].items[1].quantity > 1
        /\ orders[o].items[1].price > 1
        /\ orders[o].items[2].quantity /= orders[o].items[1].quantity
        /\ orders[o].items[2].price /= orders[o].items[1].price
        /\ \A i \in 1..2 : orders[o].items[i].subtotal =
                              orders[o].items[i].quantity * orders[o].items[i].price

\* C29: an order never holds two items for the same product, whatever
\* create_order calls and item creations, saves and deletions took place; a
\* create_order call whose list names a product twice persists nothing.
C29_OneItemPerProduct ==
    /\ [](\A o \in DOMAIN orders : \A i, j \in DOMAIN orders[o].items :
             orders[o].items[i].product = orders[o].items[j].product => i = j)
    /\ [](\A items \in RequestLists :
             NamesProductTwice(items)
                => LET r == create_order(items, [orders |-> orders,
                                                 payments |-> payments])
                   IN  r.raised /\ r.orders = orders)

\* C29 witness: a create_order call was rejected at its second item while an
\* order holds one item for every product, so that any further item created
\* for it would name a product it has.
C29_Witness ==
    /\ result.op = "create_order"
    /\ ~result.success
    /\ result.errors = {2}
    /\ \E o \in DOMAIN orders :
          /\ Len(orders[o].items) = NumProducts
          /\ \A p \in Products : HasProduct(o, p)

\* C30: reduce_stock(q) on a product with stock s fails and leaves stock and
\* status as they were when q <= 0 or s < q, and otherwise makes the stock
\* exactly s - q; increase_stock(q) makes the stock exactly s + q for q > 0 and
\* fails without a change for q <= 0.
C30_StockArithmetic ==
    /\ [](\A p \in Products, q \in StockQuantities :
             LET s == products[p].stock
                 r == reduce_stock(products[p], q)
                 i == increase_stock(products[p], q)
             IN  /\ IF q <= 0 \/ s < q
                    THEN r.raised /\ r.product = products[p]
                    ELSE ~r.raised /\ r.product.stock = s - q
                 /\ IF q <= 0
                    THEN i.raised /\ i.product = products[p]
                    ELSE ~i.raised /\ i.product.stock = s + q)
    /\ [][\A p \in Products, q \in StockQuantities :
             /\ ReduceStock(p, q) =>
                   IF q <= 0 \/ products[p].stock < q
                   THEN ~result'.success /\ products' = products
                   ELSE /\ result'.success
                        /\ products'[p].stock = products[p].stock - q
             /\ IncreaseStock(p, q) =>
                   IF q <= 0
                   THEN ~result'.success /\ products' = products
                   ELSE /\ result'.success
                        /\ products'[p].stock = products[p].stock + q]_vars

\* C30 witness: a reduce_stock call was refused after an earlier one had taken
\* the whole stock of a product, which another product got increased.
C30_Witness ==
    /\ result.op = "reduce_stock"
    /\ ~result.success
    /\ \E p \in Products :
          products[p].stock = 0 /\ products[p].status = "out_of_stock"
    /\ \E p \in Products : products[p].stock > InitStock

\* C31: every operation of the token provider is sent with a token that is
\* present and not expired: without a token, or with an expired one, the grant
\* call is made before the operation; a valid token held is reused without a
\* grant call.
C31_TokenPresentAndFresh ==
    /\ [](bkash.sent.op /= "none" =>
             bkash.sent.token /= Null /\ ~bkash.sent.expired)
    /\ [][\A op \in BkashOperations, ok \in BOOLEAN :
             BkashOperation(op, ok) =>
                IF bkash.token = Null \/ bkash.expired
                THEN bkash'.grants = bkash.grants + 1
                ELSE bkash'.grants = bkash.grants /\ bkash'.sent.token = bkash.token]_vars

\* C32: createOrder and checkout answer every business-rule failure with a
\* validation failure their caller handles, never with an uncaught fault, also
\* for an item list that names a product in two entries; a failed call leaves no
\* order, item or payment behind.
C32_FailuresAreTyped ==
    /\ [](result.op \in {"create_order", "create", "checkout"} => ~result.fault)
    /\ [][(result'.op \in {"create_order", "create", "checkout"} /\ ~result'.success)
             => (orders' = orders /\ payments' = payments)]_vars

\* C33: an order in status paid has at least one payment of its own whose
\* status is success or refunded.
C33_PaidHasSuccessfulPayment ==
    \A o \in DOMAIN orders :
        orders[o].status = "paid" =>
            \E k \in DOMAIN payments :
                /\ payments[k].order = o
                /\ payments[k].status \in {"success", "refunded"}

\* C34: a payment is in status success only when the provider's answer kept
\* with it reports a success status (succeeded / completed / success), on
\* every channel; a confirm call that went through but reports another status
\* does not mark the payment success.
C34_SuccessOnlyOnSuccessStatus ==
    \A k \in DOMAIN payments :
        payments[k].status = "success" =>
            lower(payments[k].raw_response) \in SuccessStatuses

\* the quantity of product p in the items of the orders 1..n now in status paid
RECURSIVE PaidQuantity(_, _)
PaidQuantity(p, n) ==
    IF n = 0 THEN 0
    ELSE (IF orders[n].status = "paid" THEN QtyOf(n, p) ELSE 0) + PaidQuantity(p, n - 1)

\* C35: stock conservation: without administrative stock edits, every product's
\* stock equals its initial stock minus the quantities of that product in the
\* items of the orders now in status paid.
C35_StockConservation ==
    \A p \in Products :
        products[p].stock = InitStock - PaidQuantity(p, Len(orders))

\* C36: under any sequence or interleaving of cancel requests on one paid
\* order every item's quantity is added back to the stock once: the cancel
\* that takes effect on the paid order adds the quantities to the stock it
\* finds, and a cancel that takes effect when the order is already cancelled
\* changes no stock.
C36_CancelRestoresOnce ==
    [][\A s \in Slots :
          (requests[s].pc = "cancel" /\ requests'[s] = Idle) =>
             LET o == requests[s].id
             IN  IF orders[o].status = "cancelled"
                 THEN products' = products
                 ELSE (orders[o].status = "paid" /\ requests[s].prods = products) =>
                         \A p \in Products :
                            products'[p].stock = products[p].stock + QtyOf(o, p)]_vars

\* C37: order operations never make an inactive product active: when a
\* product is inactive, markPaid on a pending order and a later cancel of that
\* order leave the product's status other than active, also when the decrement
\* brings the stock to zero and the cancel restores it.
C37_InactiveStaysInactive ==
    \A o \in DOMAIN orders, p \in Products :
        (orders[o].status = "pending" /\ products[p].status = "inactive") =>
            LET paid == mark_as_paid(orders[o], products)
                back == cancel(paid.order, paid.products)
            IN  /\ paid.products[p].status /= "active"
                /\ back.products[p].status /= "active"

\* C38: after any sequence of reduce_stock and increase_stock calls on a
\* product that starts active with stock > 0, its status is out_of_stock
\* exactly when its stock is 0, and is_available is true exactly when the
\* status is active and the stock is above 0.
C38_OutOfStockIffEmpty ==
    \A p \in Products :
        /\ products[p].status = "out_of_stock" <=> products[p].stock = 0
        /\ is_available(products[p]) <=>
              (products[p].status = "active" /\ products[p].stock > 0)
        /\ products[p].status \in {"active", "out_of_stock"}

\* C38 witness: a paid order took the whole stock of a product and its cancel
\* gave it back, so the product went out of stock and is active again, while
\* another product is out of stock.
C38_Witness ==
    /\ \E o \in DOMAIN orders, p \in Products :
          /\ orders[o].status = "cancelled"
          /\ paidFlips[o] = 1
          /\ QtyOf(o, p) = InitStock
          /\ reduced[o][p] = 0
          /\ products[p].status = "active"
          /\ products[p].stock > 0
    /\ \E p \in Products : products[p].stock = 0 /\ products[p].status = "out_of_stock"

\* C39: confirm acts only on a pending payment: for a payment in another
\* status it answers with an error, calls no provider and leaves payments,
\* orders and stock as they are; for a pending payment it calls the provider
\* and the payment ends success when the call succeeded and failed when it
\* failed; no payment returns to pending, so run after run a payment's
\* provider confirm call is issued at most once.
C39_ConfirmOnlyPending ==
    /\ [][(result'.op = "confirm" /\ result'.payment_id \in DOMAIN payments) =>
             LET tid == result'.payment_id
             IN  IF payments[tid].status /= "pending"
                 THEN /\ ~result'.success
                      /\ ~result'.provider_called
                      /\ UNCHANGED <<db, hist>>
                 ELSE /\ result'.provider_called
                      /\ payments'[tid].status =
                            IF result'.success THEN "success" ELSE "failed"]_vars
    /\ [][\A k \in DOMAIN payments :
             payments[k].status /= "pending" => payments'[k].status /= "pending"]_vars

\* C39 witness: confirm took one pending payment to success and another to
\* failed, and the last confirm, on a payment that was not pending, was refused
\* without a provider call.
C39_Witness ==
    /\ result.op = "confirm"
    /\ result.error = CannotConfirm
    /\ ~result.provider_called
    /\ \E j, k \in DOMAIN payments :
          /\ payments[j].status = "success"
          /\ payments[j].raw_response \in ConfirmStatuses(payments[j].provider)
          /\ payments[k].status = "failed"
          /\ payments[k].raw_response = "error"

\* C40: a refund by an admin of a payment in status success whose provider
\* refund succeeds sets the payment's status to refunded and stores a refund
\* record with it, and leaves completed_at, the other payments, every order
\* and every product's stock as they are; when the provider refund fails or
\* the caller is no admin the payment stays success and nothing changes.
C40_RefundFrame ==
    [][result'.op = "refund" =>
          IF result'.success
          THEN LET pid == result'.payment_id
               IN  /\ payments[pid].status = "success"
                   /\ payments' = [payments EXCEPT ![pid].status = "refunded",
                                                   ![pid].refund = TRUE]
                   /\ payments'[pid].completed_at = payments[pid].completed_at
                   /\ UNCHANGED <<orders, products, hist>>
          ELSE /\ UNCHANGED <<db, hist>>
               /\ result'.error \in {AdminRequired, PaymentNotFound,
                                     CannotRefund, RefundFailed}
               /\ result'.error = CannotRefund =>
                     payments[result'.payment_id].status /= "success"
               /\ result'.error = RefundFailed =>
                     payments'[result'.payment_id].status = "success"]_vars

\* C40 witness: the payment of a paid order was refunded, with its time of
\* completion, the paid order and the stock taken left as they were, and the
\* last refund, of another success payment, failed at the provider and left
\* that payment success.
C40_Witness ==
    /\ result.op = "refund"
    /\ result.error = RefundFailed
    /\ result.payment_id \in DOMAIN payments
    /\ payments[result.payment_id].status = "success"
    /\ ~payments[result.payment_id].refund
    /\ \E k \in DOMAIN payments :
          /\ payments[k].status = "refunded"
          /\ payments[k].refund
          /\ payments[k].completed_at /= Null
          /\ orders[payments[k].order].status = "paid"
          /\ \E p \in Products : reduced[payments[k].order][p] > 0

====
